---------------------------- MODULE Spec2Model ----------------------------
(***************************************************************************)
(* A model of the CompGraph execution engine: the grouping iterator        *)
(* (lib/groups.py), the Reduce and Join transducers with the stock         *)
(* reducers and joiners (lib/operations.py).                               *)
(*                                                                         *)
(* A row (a Python dict) is a sequence of <<column, value>> pairs with     *)
(* pairwise distinct columns, in insertion order.  None is the empty       *)
(* tuple <<>> and a present row r is <<r>>, so that the row with no        *)
(* columns and None stay different values.  A generator object is the      *)
(* position of its frame: "new" (not started), "run" (suspended at a       *)
(* yield) or "done".                                                       *)
(***************************************************************************)
EXTENDS Integers, Sequences, FiniteSets, TLC

VARIABLES
    keys,      \* the key list of the operation (Reduce.keys / Join.keys / sort keys)
    leftIn,    \* the rows of the (left) upstream
    rightIn,   \* the rows of the right upstream of a join
    opr,       \* the reducer, the joiner, the free consumer driving the groups, or the
               \* mappers of a chain of Map operations
    L,         \* the GroupsCreator over leftIn
    R,         \* the GroupsCreator over rightIn
    pc,        \* position of the transducer's frame
    out,       \* the rows the transducer has yielded so far; the lists run has returned
    calls,     \* history: one record per group handed out / per joiner call / per run
    stream,    \* the rows entering a sort; the rows of a source as first supplied
    buffer,    \* the chunk a sort holds in memory
    runs,      \* the sorted runs a sort has spilled
    heap,      \* the row objects of a source (dicts that operators may write to)
    graphs,    \* the Graph objects constructed so far
    lists,     \* the list objects that operations_lst attributes refer to
    trace      \* history: the events of the latest call on a graph, in order

vars == <<keys, leftIn, rightIn, opr, L, R, pc, out, calls,
          stream, buffer, runs, heap, graphs, lists, trace>>

sortVars == <<stream, buffer, runs>>

graphVars == <<graphs, lists, trace>>

\* the parts of the state an operation has nothing to do with
NoSort == stream = <<>> /\ buffer = <<>> /\ runs = <<>>

NoGraph == graphs = <<>> /\ lists = <<>> /\ trace = <<>>

NoHeap == heap = <<>>

(***************************************************************************)
(* Bounds of the model.                                                    *)
(***************************************************************************)
MaxRows == 3      \* longest upstream of a reduce / free consumer
MaxLen == 2       \* longest upstream on each side of a join
MaxKey == 3       \* key values of the join inputs are 1..MaxKey
MaxTopN == 2      \* TopN is built with n in 0..MaxTopN

(***************************************************************************)
(* Rows.                                                                   *)
(***************************************************************************)
None == <<>>

Some(r) == <<r>>

EmptyRow == <<>>

Range(s) == {s[i] : i \in 1..Len(s)}

RowCols(row) == {row[i][1] : i \in 1..Len(row)}

Has(row, c) == c \in RowCols(row)

Get(row, c) == row[CHOOSE i \in 1..Len(row) : row[i][1] = c][2]

\* d[c] = v on a dict: an existing column keeps its place, a new one is appended
DictSet(d, c, v) ==
    IF Has(d, c)
    THEN [i \in 1..Len(d) |-> IF d[i][1] = c THEN <<c, v>> ELSE d[i]]
    ELSE Append(d, <<c, v>>)

\* dict equality ignores the insertion order
RowEq(r1, r2) == Range(r1) = Range(r2)

SeqsUpTo(S, n) == UNION {[1..m -> S] : m \in 0..n}

\* tuple(row[key] for key in keys)
KeyValues(row, ks) == [i \in 1..Len(ks) |-> Get(row, ks[i])]

(***************************************************************************)
(* GroupsCreator (lib/groups.py).  src/pos model rows_generator: pos rows  *)
(* of src have been pulled.                                                *)
(***************************************************************************)
\* a faulty constructor that pulls a second row while holding the first
GroupsCreatorReadAhead(rows, ks) ==
    IF Len(rows) = 0
    THEN [keys |-> ks, src |-> rows, pos |-> 0, first |-> None,
          gkv |-> <<>>, gen |-> "new"]
    ELSE [keys |-> ks, src |-> rows, pos |-> IF Len(rows) > 1 THEN 2 ELSE 1,
          first |-> Some(rows[1]), gkv |-> KeyValues(rows[1], ks), gen |-> "new"]

GroupsCreator(rows, ks) ==
    IF Len(rows) = 0
    THEN [keys |-> ks, src |-> rows, pos |-> 0, first |-> None,
          gkv |-> <<>>, gen |-> "new"]
    ELSE [keys |-> ks, src |-> rows, pos |-> 1, first |-> Some(rows[1]),
          gkv |-> KeyValues(rows[1], ks), gen |-> "new"]

\* a faulty comparison that looks at the first key column only
KeysDifferFirstOnly(cv, gkv) == cv # <<>> /\ cv[1] # gkv[1]

\* current_values != self.group_key_values
KeysDiffer(cv, gkv) == cv # gkv

\* next(self.group_generator): val is <<row>>, or None for StopIteration
GenNext(gc) ==
    CASE gc.gen = "done" -> [gc |-> gc, val |-> None]
      [] gc.gen = "new" ->
            IF gc.first = None
            THEN [gc |-> [gc EXCEPT !.gen = "done"], val |-> None]
            ELSE [gc |-> [gc EXCEPT !.gen = "run"], val |-> gc.first]
      [] gc.gen = "run" ->
            IF gc.pos = Len(gc.src)
            THEN [gc |-> [gc EXCEPT !.first = None, !.gen = "done"], val |-> None]
            ELSE LET row == gc.src[gc.pos + 1]
                     cv == KeyValues(row, gc.keys)
                 IN  IF KeysDiffer(cv, gc.gkv)
                     THEN [gc |-> [gc EXCEPT !.pos = @ + 1, !.first = Some(row),
                                             !.gkv = cv, !.gen = "done"],
                           val |-> None]
                     ELSE [gc |-> [gc EXCEPT !.pos = @ + 1], val |-> Some(row)]

\* for row in group_generator: ...  (the rows the loop sees, and the creator after)
RECURSIVE DrainFrom(_, _)
DrainFrom(gc, acc) ==
    LET r == GenNext(gc)
    IN  IF r.val = None THEN [gc |-> r.gc, rows |-> acc]
        ELSE DrainFrom(r.gc, Append(acc, r.val[1]))

Drain(gc) == DrainFrom(gc, <<>>)

\* a faulty update_generator: the current group is exhausted, but the
\* generator of the next group is not constructed
UpdateGeneratorKeepsIterator(gc) == Drain(gc).gc

\* a faulty update_generator: the current group is not exhausted first
UpdateGeneratorNoDrain(gc) == [gc EXCEPT !.gen = "new"]

update_generator(gc) == [Drain(gc).gc EXCEPT !.gen = "new"]

(***************************************************************************)
(* The free consumer: it follows the protocol of Reduce.__call__ (a group  *)
(* is taken only while first_group_element is not None, update_generator   *)
(* ends it) and reads any prefix of the group in between.                  *)
(***************************************************************************)
IsConsumer == opr.kind = "Consumer"

ConsumerBegin ==
    /\ IsConsumer /\ pc = "loop" /\ L.first # None
    /\ pc' = "body"
    /\ calls' = Append(calls, [gkv |-> L.gkv, rows |-> <<>>, read |-> 0,
                               emitted |-> <<>>])
    /\ UNCHANGED <<keys, leftIn, rightIn, opr, L, R, out>>
    /\ UNCHANGED <<sortVars, heap, graphVars>>

ConsumerRead ==
    /\ IsConsumer /\ pc = "body"
    /\ LET r == GenNext(L)
           n == Len(calls)
       IN  /\ L' = r.gc
           /\ calls' = IF r.val = None THEN calls
                       ELSE [calls EXCEPT ![n].rows = Append(@, r.val[1]),
                                          ![n].read = @ + 1]
    /\ UNCHANGED <<keys, leftIn, rightIn, opr, R, pc, out>>
    /\ UNCHANGED <<sortVars, heap, graphVars>>

ConsumerAdvance ==
    /\ IsConsumer /\ pc = "body"
    /\ LET n == Len(calls)
       IN  calls' = [calls EXCEPT ![n].rows = @ \o Drain(L).rows]
    /\ L' = update_generator(L)
    /\ pc' = "loop"
    /\ UNCHANGED <<keys, leftIn, rightIn, opr, R, out>>
    /\ UNCHANGED <<sortVars, heap, graphVars>>

(***************************************************************************)
(* Stock reducers (lib/operations.py).  A reducer call returns the creator *)
(* after the reducer has pulled from group_generator, the rows it pulled,  *)
(* the rows it yields, and the exception it raises ("" for none).          *)
(***************************************************************************)
RECURSIVE Gcd(_, _)
Gcd(a, b) == IF b = 0 THEN a ELSE Gcd(b, a % b)

\* a / b on numbers: the quotient in lowest terms
TrueDiv(a, b) == [num |-> a \div Gcd(a, b), den |-> b \div Gcd(a, b)]

RECURSIVE SumCol(_, _)
SumCol(rows, c) ==
    IF rows = <<>> THEN 0 ELSE Get(rows[1], c) + SumCol(Tail(rows), c)

Last(s) == s[Len(s)]

\* ans = dict(); for key in group_key: ans[key] = row[key]   (row: the last row)
RECURSIVE EchoKeys(_, _, _)
EchoKeys(ans, group_key, row) ==
    IF group_key = <<>> THEN ans
    ELSE EchoKeys(DictSet(ans, group_key[1], Get(row, group_key[1])),
                  Tail(group_key), row)

Result(gc, rows, o, e) == [gc |-> gc, rows |-> rows, out |-> o, err |-> e]

FirstReducer(op, group_key, gc) ==
    LET r == GenNext(gc)
    IN  Result(r.gc, r.val, r.val, "")

Count(op, group_key, gc) ==
    LET d == Drain(gc)
    IN  IF d.rows = <<>> /\ group_key # <<>>
        THEN Result(d.gc, d.rows, <<>>, "NameError")
        ELSE LET row == IF d.rows = <<>> THEN EmptyRow ELSE Last(d.rows)
                 ans == EchoKeys(<<>>, group_key, row)
             IN  Result(d.gc, d.rows, <<DictSet(ans, op.col, Len(d.rows))>>, "")

\* a faulty Sum that echoes no key column
SumNoKey(op, group_key, gc) ==
    LET d == Drain(gc)
    IN  Result(d.gc, d.rows, << <<<<op.col, SumCol(d.rows, op.col)>>>> >>, "")

Sum(op, group_key, gc) ==
    LET d == Drain(gc)
    IN  IF group_key = <<>> THEN Result(d.gc, d.rows, <<>>, "IndexError")
        ELSE IF d.rows = <<>> THEN Result(d.gc, d.rows, <<>>, "NameError")
        ELSE LET k0 == group_key[1]
                 ans == DictSet(<< <<k0, Get(Last(d.rows), k0)>> >>, op.col,
                                SumCol(d.rows, op.col))
             IN  Result(d.gc, d.rows, <<ans>>, "")

Mean(op, group_key, gc) ==
    LET d == Drain(gc)
    IN  IF d.rows = <<>>
        THEN Result(d.gc, d.rows, <<>>,
                    IF group_key # <<>> THEN "NameError" ELSE "ZeroDivisionError")
        ELSE LET ans == EchoKeys(<<>>, group_key, Last(d.rows))
                 mean == TrueDiv(SumCol(d.rows, op.col), Len(d.rows))
             IN  Result(d.gc, d.rows, <<DictSet(ans, op.col, mean)>>, "")

\* words_counter: the distinct words in order of first occurrence
RECURSIVE Distinct(_, _)
Distinct(ws, acc) ==
    IF ws = <<>> THEN acc
    ELSE Distinct(Tail(ws), IF ws[1] \in Range(acc) THEN acc ELSE Append(acc, ws[1]))

TermFrequency(op, group_keys, gc) ==
    LET d == Drain(gc)
        words == [i \in 1..Len(d.rows) |-> Get(d.rows[i], op.col)]
        counter == Distinct(words, <<>>)
        occurrences(w) == Cardinality({i \in 1..Len(words) : words[i] = w})
    IN  IF d.rows = <<>> /\ group_keys # <<>>
        THEN Result(d.gc, d.rows, <<>>, "NameError")
        ELSE LET row == IF d.rows = <<>> THEN EmptyRow ELSE Last(d.rows)
                 common_keys == EchoKeys(<<>>, group_keys, row)
             IN  Result(d.gc, d.rows,
                        [i \in 1..Len(counter) |->
                            DictSet(DictSet(common_keys, op.col, counter[i]), "tf",
                                    TrueDiv(occurrences(counter[i]), Len(words)))],
                        "")

\* sorted(rows, key=row[col]) and sorted(..., reverse=True): both stable
\* a faulty insertion that puts a row before the rows of equal value
RECURSIVE InsertByKeyBeforeTies(_, _, _, _)
InsertByKeyBeforeTies(sorted, row, c, reverse) ==
    IF sorted = <<>> THEN <<row>>
    ELSE LET h == sorted[1]
             before == IF reverse THEN Get(h, c) > Get(row, c)
                       ELSE Get(h, c) < Get(row, c)
         IN  IF before
             THEN <<h>> \o InsertByKeyBeforeTies(Tail(sorted), row, c, reverse)
             ELSE <<row>> \o sorted

RECURSIVE InsertByKey(_, _, _, _)
InsertByKey(sorted, row, c, reverse) ==
    IF sorted = <<>> THEN <<row>>
    ELSE LET h == sorted[1]
             before == IF reverse THEN Get(h, c) >= Get(row, c)
                       ELSE Get(h, c) <= Get(row, c)
         IN  IF before THEN <<h>> \o InsertByKey(Tail(sorted), row, c, reverse)
             ELSE <<row>> \o sorted

RECURSIVE SortedByKey(_, _, _, _)
SortedByKey(rows, c, reverse, acc) ==
    IF rows = <<>> THEN acc
    ELSE SortedByKey(Tail(rows), c, reverse, InsertByKey(acc, rows[1], c, reverse))

Take(s, n) == SubSeq(s, 1, IF n < Len(s) THEN n ELSE Len(s))

\* heapq.nlargest / nsmallest: nothing is pulled for n <= 0
TopN(op, group_key, gc) ==
    IF op.n <= 0 THEN Result(gc, <<>>, <<>>, "")
    ELSE LET d == Drain(gc)
         IN  Result(d.gc, d.rows,
                    Take(SortedByKey(d.rows, op.col, op.asc, <<>>), op.n), "")

Reducer(op, group_key, gc) ==
    CASE op.kind = "FirstReducer" -> FirstReducer(op, group_key, gc)
      [] op.kind = "Count" -> Count(op, group_key, gc)
      [] op.kind = "Sum" -> Sum(op, group_key, gc)
      [] op.kind = "Mean" -> Mean(op, group_key, gc)
      [] op.kind = "TermFrequency" -> TermFrequency(op, group_key, gc)
      [] op.kind = "TopN" -> TopN(op, group_key, gc)

(***************************************************************************)
(* Reduce.__call__: one action per iteration of its loop.                  *)
(***************************************************************************)
ReduceStep ==
    /\ ~IsConsumer /\ pc = "loop" /\ L.first # None
    /\ LET r == Reducer(opr, keys, L)
           u == Drain(r.gc)
       IN  /\ calls' = Append(calls, [gkv |-> L.gkv, rows |-> r.rows \o u.rows,
                                      read |-> Len(r.rows), emitted |-> r.out])
           /\ IF r.err # ""
              THEN /\ pc' = r.err
                   /\ L' = r.gc
                   /\ out' = out
              ELSE /\ pc' = "loop"
                   /\ L' = update_generator(r.gc)
                   /\ out' = out \o r.out
    /\ UNCHANGED <<keys, leftIn, rightIn, opr, R>>
    /\ UNCHANGED <<sortVars, heap, graphVars>>

\* while groups_creator.first_group_element is not None: ... (the loop ends)
LoopExit ==
    /\ pc = "loop" /\ L.first = None
    /\ pc' = "done"
    /\ UNCHANGED <<keys, leftIn, rightIn, opr, L, R, out, calls>>
    /\ UNCHANGED <<sortVars, heap, graphVars>>

(***************************************************************************)
(* The inputs of the grouping / reduce specification.                      *)
(***************************************************************************)
KeyLists == {<<>>, <<"k">>, <<"k", "j">>}

ReduceRows == {<< <<"k", a>>, <<"j", b>>, <<"v", c>> >> : a \in 1..2, b \in 1..2, c \in 1..2}

Op(kind, col, n, asc) == [kind |-> kind, col |-> col, n |-> n, asc |-> asc]

Reducers ==
    {Op("FirstReducer", "v", 0, TRUE), Op("Mean", "v", 0, TRUE),
     Op("TermFrequency", "v", 0, TRUE)}
    \cup {Op(kd, c, 0, TRUE) : kd \in {"Count", "Sum"}, c \in {"v", "k"}}
    \cup {Op("TopN", "v", n, a) : n \in 0..MaxTopN, a \in BOOLEAN}

Init ==
    /\ keys \in KeyLists
    /\ leftIn \in SeqsUpTo(ReduceRows, MaxRows)
    /\ rightIn = <<>>
    /\ opr \in {Op("Consumer", "v", 0, TRUE)} \cup Reducers
    /\ L = GroupsCreator(leftIn, keys)
    /\ R = GroupsCreator(<<>>, keys)
    /\ pc = "loop"
    /\ out = <<>>
    /\ calls = <<>>
    /\ NoSort /\ NoHeap /\ NoGraph

Next ==
    \/ ConsumerBegin
    \/ ConsumerRead
    \/ ConsumerAdvance
    \/ ReduceStep
    \/ LoopExit

Spec == Init /\ [][Next]_vars

(***************************************************************************)
(* Properties of the grouping iterator and of Reduce (specification Spec). *)
(***************************************************************************)
RECURSIVE Flatten(_)
Flatten(ss) == IF ss = <<>> THEN <<>> ELSE ss[1] \o Flatten(Tail(ss))

\* the rows delivered through the groups so far, read or drained, in order
Delivered == Flatten([i \in 1..Len(calls) |-> calls[i].rows])

Failed == pc \in {"IndexError", "NameError", "ZeroDivisionError"}

\* lexicographic order of two key tuples of the same length
RECURSIVE TupleLess(_, _)
TupleLess(x, y) ==
    /\ x # <<>>
    /\ \/ x[1] < y[1]
       \/ x[1] = y[1] /\ TupleLess(Tail(x), Tail(y))

SortedOn(rows, ks) ==
    \A i \in 1..(Len(rows) - 1) :
        ~TupleLess(KeyValues(rows[i + 1], ks), KeyValues(rows[i], ks))

\* the group of calls[i] is complete: its consumer has advanced past it
Complete(i) == ~(i = Len(calls) /\ pc = "body")

\* C1: grouping completeness.  Whatever prefix of each group the consumer
\* reads before update_generator, the rows delivered through the groups
\* (read or drained) are the upstream rows in upstream order, each once:
\* at every loop head all pulled rows but the held seed have been delivered,
\* and at the end all upstream rows have.
C1_GroupingCompleteness ==
    /\ Len(Delivered) <= Len(leftIn)
    /\ Delivered = SubSeq(leftIn, 1, Len(Delivered))
    /\ pc = "loop" => Len(Delivered) = L.pos - (IF L.first # None THEN 1 ELSE 0)
    /\ pc = "done" => Delivered = leftIn

\* C1 witness: a free consumer finished an upstream of three rows or more,
\* having read a proper non-empty prefix of some group (the rest was drained).
C1_Witness ==
    /\ IsConsumer /\ pc = "done" /\ Len(leftIn) >= 3 /\ Len(calls) >= 2
    /\ \E i \in 1..Len(calls) :
          calls[i].read > 0 /\ calls[i].read < Len(calls[i].rows)

\* C2: group structure.  On any input, sorted or not: every completed group
\* is non-empty, the rows of a group share one key tuple, consecutive groups
\* have different key tuples, an empty upstream gives no group; so no
\* reducer is called on an empty group (no 'Empty row iterator' error) and
\* Reduce does not fail on an unsorted input.
C2_GroupStructure ==
    /\ \A i \in 1..Len(calls) :
          LET g == calls[i].rows
          IN  /\ Complete(i) => g # <<>>
              /\ \A j \in 1..Len(g) : KeyValues(g[j], keys) = KeyValues(g[1], keys)
              /\ (i > 1 /\ g # <<>>) =>
                    KeyValues(g[1], keys)
                        # KeyValues(calls[i - 1].rows[1], keys)
    /\ leftIn = <<>> => calls = <<>>
    /\ pc \notin {"NameError", "ZeroDivisionError"}
    /\ ~SortedOn(leftIn, keys) => ~Failed

\* C2 witness: Reduce finished an unsorted input whose first and third rows
\* share a key tuple that the second does not: three groups were produced.
C2_Witness ==
    /\ ~IsConsumer /\ pc = "done" /\ Len(calls) = 3
    /\ ~SortedOn(leftIn, keys)
    /\ KeyValues(leftIn[1], keys) = KeyValues(leftIn[3], keys)

\* the column a reducer writes its result to
ResultColumn(op) == IF op.kind = "TermFrequency" THEN "tf" ELSE op.col

EmitsInputRows(op) == op.kind \in {"FirstReducer", "TopN"}

\* the row e holds the key columns ks[1..n] with the values of the group g
Echoes(e, g, ks, n) ==
    \A i \in 1..n : Has(e, ks[i]) /\ Get(e, ks[i]) = Get(g[1], ks[i])

\* C10 as stated: for every stock reducer and every key list, each row
\* emitted by Reduce contains all grouping-key columns with the values of
\* the group it was computed from.
C10_KeyEchoAsStated ==
    IsConsumer \/
    \A i \in 1..Len(calls) : \A j \in 1..Len(calls[i].emitted) :
        Echoes(calls[i].emitted[j], calls[i].rows, keys, Len(keys))

\* C10 amended: FirstReducer and TopN (which emit input rows) echo all key
\* columns; Count, Mean and TermFrequency echo all key columns provided
\* neither their column nor their result column is a key column; Sum emits
\* a row of the first key column and its own column only, echoing that key
\* provided its column is not that key, and with an empty key list it
\* emits nothing and raises IndexError on the first group.
C10_KeyEcho ==
    IsConsumer \/
    /\ \A i \in 1..Len(calls) : \A j \in 1..Len(calls[i].emitted) :
        LET e == calls[i].emitted[j]
            g == calls[i].rows
        IN  CASE EmitsInputRows(opr) -> Echoes(e, g, keys, Len(keys))
              [] opr.kind = "Sum" ->
                    /\ keys # <<>>
                    /\ RowCols(e) = {keys[1], opr.col}
                    /\ opr.col # keys[1] => Echoes(e, g, keys, 1)
              [] OTHER ->
                    {opr.col, ResultColumn(opr)} \cap Range(keys) = {}
                        => Echoes(e, g, keys, Len(keys))
    /\ (opr.kind = "Sum" /\ keys = <<>>) =>
          /\ out = <<>>
          /\ leftIn # <<>> => pc \in {"loop", "IndexError"}
          /\ pc = "loop" => calls = <<>>

\* C10 witness: Sum over the two-column key list finished and emitted a row
\* that holds the first key column and not the second.
C10_Witness ==
    /\ opr.kind = "Sum" /\ opr.col = "v" /\ keys = <<"k", "j">> /\ pc = "done"
    /\ \E i \in 1..Len(calls) :
          /\ Len(calls[i].emitted) = 1
          /\ Has(calls[i].emitted[1], "k") /\ ~Has(calls[i].emitted[1], "j")

Min(a, b) == IF a < b THEN a ELSE b

\* position p of the group g comes before position q in the order of TopN:
\* larger value first when ascending is True, smaller first when it is False,
\* and the earlier arrival first among equal values
RanksBefore(g, c, asc, p, q) ==
    LET vp == Get(g[p], c)
        vq == Get(g[q], c)
    IN  \/ (IF asc THEN vp > vq ELSE vp < vq)
        \/ vp = vq /\ p < q

\* C16: TopN selection.  For a group of g rows TopN(col, n, ascending) emits
\* exactly min(n, g) rows: the rows of the largest values of col when
\* ascending is True, of the smallest when it is False; among equal values
\* the earlier arrival is selected first and emitted first.
C16_TopNSelection ==
    (opr.kind = "TopN") =>
        \A i \in 1..Len(calls) :
            LET g == calls[i].rows
                e == calls[i].emitted
                m == Min(opr.n, Len(g))
            IN  /\ Len(e) = m
                /\ \E idx \in [1..m -> 1..Len(g)] :
                      /\ \A j \in 1..m : e[j] = g[idx[j]]
                      /\ \A j \in 1..m : \A j2 \in 1..m :
                            idx[j] = idx[j2] => j = j2
                      /\ \A j \in 1..m : \A p \in (1..Len(g)) \ {idx[j]} :
                            (\E j2 \in 1..m : j2 < j /\ idx[j2] = p)
                                \/ RanksBefore(g, opr.col, opr.asc, idx[j], p)

\* C16 witness: TopN with n = 2 took two different rows of equal value out
\* of a group of three, leaving out a row of another value.
C16_Witness ==
    /\ opr.kind = "TopN" /\ opr.n = 2
    /\ \E i \in 1..Len(calls) :
          LET g == calls[i].rows
              e == calls[i].emitted
          IN  /\ Len(g) = 3 /\ Len(e) = 2
              /\ e[1] # e[2] /\ Get(e[1], opr.col) = Get(e[2], opr.col)
              /\ \E p \in 1..3 : Get(g[p], opr.col) # Get(e[1], opr.col)

\* the rows pulled from upstream and not yet delivered through a group
Lookahead == L.pos - Len(Delivered)

\* C19: bounded lookahead of the grouping iterator.  In every state the rows
\* pulled from upstream exceed the rows delivered through the groups (read
\* by the consumer or drained by update_generator) by at most one, and the
\* extra row is the held first_group_element: the seed of a group that has
\* not been started, or of the next group.
C19_BoundedLookahead ==
    /\ L.pos <= Len(leftIn)
    /\ Lookahead \in {0, 1}
    /\ Lookahead = 1 =>
          /\ L.first = Some(leftIn[L.pos])
          /\ L.gen \in {"new", "done"}
    /\ Lookahead = 0 => (L.gen = "run" \/ L.first = None)

\* C19 witness: the free consumer is inside a group whose generator has
\* ended on a key change: the row of the next key is held and undelivered.
C19_Witness ==
    /\ IsConsumer /\ pc = "body" /\ L.gen = "done" /\ L.first # None
    /\ L.pos >= 2 /\ Lookahead = 1
    /\ KeyValues(leftIn[L.pos], keys) # KeyValues(leftIn[L.pos - 1], keys)

(***************************************************************************)
(* Joiners (lib/operations.py).  An argument of a joiner is either a       *)
(* group generator of a creator or the list [dict()].                      *)
(***************************************************************************)
A_SUFFIX == "_1"

B_SUFFIX == "_2"

GroupArg(gc) == [sentinel |-> FALSE, gc |-> gc]

SentinelArg(gc) == [sentinel |-> TRUE, gc |-> gc]

\* iterating an argument to its end: the rows seen and the creator afterwards
Iterate(arg) ==
    IF arg.sentinel THEN [gc |-> arg.gc, rows |-> <<EmptyRow>>] ELSE Drain(arg.gc)

\* first loop of merge_two_dicts_by_keys: for key in a_row
RECURSIVE MergeFromA(_, _, _, _, _, _, _)
MergeFromA(merged, i, a_row, b_row, suffix_a, suffix_b, ks) ==
    IF i > Len(a_row) THEN merged
    ELSE LET key == a_row[i][1]
             m == IF Has(b_row, key) /\ key \notin Range(ks)
                  THEN DictSet(DictSet(merged, key \o suffix_a, a_row[i][2]),
                               key \o suffix_b, Get(b_row, key))
                  ELSE DictSet(merged, key, a_row[i][2])
         IN  MergeFromA(m, i + 1, a_row, b_row, suffix_a, suffix_b, ks)

\* second loop of merge_two_dicts_by_keys: for key in b_row
RECURSIVE MergeFromB(_, _, _, _)
MergeFromB(merged, i, b_row, suffix_b) ==
    IF i > Len(b_row) THEN merged
    ELSE LET key == b_row[i][1]
             m == IF ~Has(merged, key) /\ ~Has(merged, key \o suffix_b)
                  THEN DictSet(merged, key, b_row[i][2])
                  ELSE merged
         IN  MergeFromB(m, i + 1, b_row, suffix_b)

merge_two_dicts_by_keys(a_row, b_row, suffix_a, suffix_b, ks) ==
    LET swap == Len(a_row) = 0
        a == IF swap THEN b_row ELSE a_row
        b == IF swap THEN EmptyRow ELSE b_row
        sa == IF swap THEN suffix_b ELSE suffix_a
        sb == IF swap THEN suffix_a ELSE suffix_b
    IN  MergeFromB(MergeFromA(<<>>, 1, a, b, sa, sb, ks), 1, b, sb)

\* for row_b in rows_b: if emit: yield merge_two_dicts_by_keys(row_a, row_b, ...)
RECURSIVE ForRowB(_, _, _, _)
ForRowB(row_a, rows_b, emit, ks) ==
    IF rows_b = <<>> THEN <<>>
    ELSE (IF emit
          THEN <<merge_two_dicts_by_keys(row_a, rows_b[1], A_SUFFIX, B_SUFFIX, ks)>>
          ELSE <<>>)
         \o ForRowB(row_a, Tail(rows_b), emit, ks)

\* for row_a in rows_a: for row_b in rows_b: ...
RECURSIVE ForRowA(_, _, _, _)
ForRowA(rows_a, rows_b, emit, ks) ==
    IF rows_a = <<>> THEN <<>>
    ELSE ForRowB(rows_a[1], rows_b, emit, ks) \o ForRowA(Tail(rows_a), rows_b, emit, ks)

\* faulty loops: the right group outermost
RECURSIVE ForRowBThenA(_, _, _, _)
ForRowBThenA(rows_a, rows_b, emit, ks) ==
    IF rows_b = <<>> THEN <<>>
    ELSE LET col == [i \in 1..Len(rows_a) |->
                        merge_two_dicts_by_keys(rows_a[i], rows_b[1],
                                                A_SUFFIX, B_SUFFIX, ks)]
         IN  (IF emit THEN col ELSE <<>>)
             \o ForRowBThenA(rows_a, Tail(rows_b), emit, ks)

\* the loops of a joiner over its two iterated arguments: tuple(rows_b) is
\* taken first, then rows_a is iterated; the call leaves the rows it yields
\* and the two creators
Loops(ks, A, B, emit) ==
    [out |-> ForRowA(A.rows, B.rows, emit, ks), a |-> A.gc, b |-> B.gc]

\* a faulty InnerJoiner without the test of the right sentinel
InnerJoinerNoRightCheck(ks, a, b) == Loops(ks, Iterate(a), Iterate(b), ~a.sentinel)

\* left_dict_is_none = rows_a == [dict()]; right_dict_is_none = rows_b == [dict()]
InnerJoiner(ks, a, b) ==
    Loops(ks, Iterate(a), Iterate(b), ~a.sentinel /\ ~b.sentinel)

\* a faulty OuterJoiner iterating the right group outermost
OuterJoinerRightMajor(ks, a, b) ==
    [out |-> ForRowBThenA(Iterate(a).rows, Iterate(b).rows, TRUE, ks),
     a |-> Iterate(a).gc, b |-> Iterate(b).gc]

OuterJoiner(ks, a, b) == Loops(ks, Iterate(a), Iterate(b), TRUE)

\* a faulty LeftJoiner without the test of the left sentinel
LeftJoinerNoCheck(ks, a, b) == Loops(ks, Iterate(a), Iterate(b), TRUE)

\* left_dict_is_none = rows_a == [dict()]
LeftJoiner(ks, a, b) == Loops(ks, Iterate(a), Iterate(b), ~a.sentinel)

\* right_dict_is_none = rows_b == [dict()]
RightJoiner(ks, a, b) == Loops(ks, Iterate(a), Iterate(b), ~b.sentinel)

Joiner(op, ks, a, b) ==
    CASE op.kind = "InnerJoiner" -> InnerJoiner(ks, a, b)
      [] op.kind = "OuterJoiner" -> OuterJoiner(ks, a, b)
      [] op.kind = "LeftJoiner" -> LeftJoiner(ks, a, b)
      [] op.kind = "RightJoiner" -> RightJoiner(ks, a, b)

(***************************************************************************)
(* Join.__call__ (lib/operations.py).  A frame of the generator is the     *)
(* record [L, R, pc, out, calls]; pc is the loop it stands in: "main",     *)
(* "drainL", "drainR", or "done".                                          *)
(***************************************************************************)
\* a faulty comparison with the two outcomes exchanged
CompareSwapped(first_values, second_values) ==
    LET differ == {i \in 1..Len(first_values) : first_values[i] # second_values[i]}
    IN  IF differ = {} THEN <<1, 1>>
        ELSE LET i == CHOOSE x \in differ : \A y \in differ : x <= y
             IN  IF first_values[i] < second_values[i] THEN <<1, 0>> ELSE <<0, 1>>

RECURSIVE compare_key_values(_, _)
compare_key_values(first_values, second_values) ==
    IF first_values = <<>> \/ second_values = <<>> THEN <<1, 1>>
    ELSE IF first_values[1] < second_values[1] THEN <<0, 1>>
    ELSE IF first_values[1] > second_values[1] THEN <<1, 0>>
    ELSE compare_key_values(Tail(first_values), Tail(second_values))

\* the truth value of first_group_element: None and the empty dict are false
Truthy(first) == first # None /\ Len(first[1]) > 0

\* what one joiner call and the update_generator calls after it leave of the
\* frame st; res is the joiner's result, groupL and groupR the current groups.
\* The call is logged.
AfterCall(st, useL, useR, phase, res, groupL, groupR) ==
    [L |-> IF useL THEN update_generator(res.a) ELSE res.a,
     R |-> IF useR THEN update_generator(res.b) ELSE res.b,
     pc |-> st.pc,
     out |-> st.out \o res.out,
     calls |-> Append(st.calls,
                 [phase |-> phase,
                  lHad |-> st.L.first # None, rHad |-> st.R.first # None,
                  kL |-> st.L.gkv, kR |-> st.R.gkv,
                  a |-> IF useL THEN "group" ELSE "sentinel",
                  b |-> IF useR THEN "group" ELSE "sentinel",
                  arows |-> IF useL THEN groupL ELSE <<>>,
                  brows |-> IF useR THEN groupR ELSE <<>>,
                  aread |-> IF useL THEN Len(groupL) - Len(Drain(res.a).rows) ELSE 0,
                  bread |-> IF useR THEN Len(groupR) - Len(Drain(res.b).rows) ELSE 0,
                  aDone |-> res.a.gen = "done", bDone |-> res.b.gen = "done",
                  advL |-> (IF useL THEN update_generator(res.a) ELSE res.a) # st.L,
                  advR |-> (IF useR THEN update_generator(res.b) ELSE res.b) # st.R,
                  emitted |-> res.out])]

\* self.joiner(self.keys, <left group or [dict()]>, <right group or [dict()]>)
\* followed by update_generator on the sides whose group was passed
JoinCall(op, ks, st, useL, useR, phase) ==
    AfterCall(st, useL, useR, phase,
              Joiner(op, ks,
                     IF useL THEN GroupArg(st.L) ELSE SentinelArg(st.L),
                     IF useR THEN GroupArg(st.R) ELSE SentinelArg(st.R)),
              Drain(st.L).rows, Drain(st.R).rows)

\* the branch the main loop takes on the two operands: which sides' groups
\* go to the joiner (and are advanced); the other side gets [dict()]
\* a faulty branch whose elif test is reversed
BranchReversed(left_group_operand, right_group_operand) ==
    IF left_group_operand = right_group_operand THEN <<TRUE, TRUE>>
    ELSE IF left_group_operand < right_group_operand THEN <<FALSE, TRUE>>
    ELSE <<TRUE, FALSE>>

Branch(left_group_operand, right_group_operand) ==
    IF left_group_operand = right_group_operand THEN <<TRUE, TRUE>>
    ELSE IF left_group_operand > right_group_operand THEN <<FALSE, TRUE>>
    ELSE <<TRUE, FALSE>>

Dispatch(cmp) == Branch(cmp[1], cmp[2])

BranchCall(op, ks, st, sides) == JoinCall(op, ks, st, sides[1], sides[2], "main")

\* the body of the main loop
MainIteration(op, ks, st) ==
    BranchCall(op, ks, st, Dispatch(compare_key_values(st.L.gkv, st.R.gkv)))

\* while left.first_group_element and right.first_group_element
MainCondition(st) == Truthy(st.L.first) /\ Truthy(st.R.first)

DrainLeft(op, ks, st) == JoinCall(op, ks, st, TRUE, FALSE, "drain")

DrainRight(op, ks, st) == JoinCall(op, ks, st, FALSE, TRUE, "drain")

Goto(st, label) == [st EXCEPT !.pc = label]

JoinStep(op, ks, st) ==
    CASE st.pc = "main" ->
            IF MainCondition(st) THEN MainIteration(op, ks, st) ELSE Goto(st, "drainL")
      [] st.pc = "drainL" ->
            IF st.L.first # None THEN DrainLeft(op, ks, st) ELSE Goto(st, "drainR")
      [] st.pc = "drainR" ->
            IF st.R.first # None THEN DrainRight(op, ks, st) ELSE Goto(st, "done")
      [] OTHER -> st

JoinStart(ks, left, right) ==
    [L |-> GroupsCreator(left, ks), R |-> GroupsCreator(right, ks),
     pc |-> "main", out |-> <<>>, calls |-> <<>>]

\* list(Join(joiner, keys)(left, right))
RECURSIVE JoinRunFrom(_, _, _)
JoinRunFrom(op, ks, st) ==
    IF st.pc = "done" THEN st.out ELSE JoinRunFrom(op, ks, JoinStep(op, ks, st))

JoinRun(op, ks, left, right) == JoinRunFrom(op, ks, JoinStart(ks, left, right))

Frame == [L |-> L, R |-> R, pc |-> pc, out |-> out, calls |-> calls]

Resume(st) ==
    /\ L' = st.L /\ R' = st.R /\ pc' = st.pc /\ out' = st.out /\ calls' = st.calls
    /\ UNCHANGED <<keys, leftIn, rightIn, opr>>
    /\ UNCHANGED <<sortVars, heap, graphVars>>

JoinMain ==
    /\ pc = "main" /\ MainCondition(Frame)
    /\ Resume(MainIteration(opr, keys, Frame))

JoinMainExit ==
    /\ pc = "main" /\ ~MainCondition(Frame)
    /\ Resume(Goto(Frame, "drainL"))

JoinDrainLeft ==
    /\ pc = "drainL" /\ L.first # None
    /\ Resume(DrainLeft(opr, keys, Frame))

JoinDrainLeftExit ==
    /\ pc = "drainL" /\ L.first = None
    /\ Resume(Goto(Frame, "drainR"))

JoinDrainRight ==
    /\ pc = "drainR" /\ R.first # None
    /\ Resume(DrainRight(opr, keys, Frame))

JoinDrainRightExit ==
    /\ pc = "drainR" /\ R.first = None
    /\ Resume(Goto(Frame, "done"))

(***************************************************************************)
(* The inputs of the join specification: four families of input pairs.     *)
(***************************************************************************)
Row1(c, v) == << <<c, v>> >>

Row2(c1, v1, c2, v2) == << <<c1, v1>>, <<c2, v2>> >>

SortedSeqs(S, ks, n) == {s \in SeqsUpTo(S, n) : SortedOn(s, ks)}

Inputs(ks, ls, rs) == {[keys |-> ks, left |-> l, right |-> r] : l \in ls, r \in rs}

\* one key column, a payload column private to each side, sorted inputs
PlainInputs ==
    Inputs(<<"k">>,
           SortedSeqs({Row2("k", x, "a", v) : x \in 1..MaxKey, v \in 1..2},
                      <<"k">>, MaxLen),
           SortedSeqs({Row2("k", x, "b", v) : x \in 1..MaxKey, v \in 1..2},
                      <<"k">>, MaxLen))

\* one key value; payload columns that collide, also with a suffixed name
CollidingRows == {Row2("k", 1, "c", 1), Row2("k", 1, "c", 2), Row2("k", 1, "c_2", 3)}

CollidingInputs ==
    Inputs(<<"k">>, SeqsUpTo(CollidingRows, MaxLen), SeqsUpTo(CollidingRows, MaxLen))

\* two key columns, inputs in any order
PairKeyRows == {Row2("k", x, "j", y) : x \in 1..2, y \in 1..2}

PairKeyInputs ==
    Inputs(<<"k", "j">>, SeqsUpTo(PairKeyRows, MaxLen), SeqsUpTo(PairKeyRows, MaxLen))

\* the empty key list, with the row that has no columns
NoKeyRows == {EmptyRow, Row1("a", 1)}

NoKeyInputs == Inputs(<<>>, SeqsUpTo(NoKeyRows, MaxLen), SeqsUpTo(NoKeyRows, MaxLen))

JoinInputs == PlainInputs \cup CollidingInputs \cup PairKeyInputs \cup NoKeyInputs

Joiners ==
    {Op(kd, "", 0, TRUE) :
        kd \in {"InnerJoiner", "OuterJoiner", "LeftJoiner", "RightJoiner"}}

InitJoin ==
    /\ \E inp \in JoinInputs :
          /\ keys = inp.keys
          /\ leftIn = inp.left
          /\ rightIn = inp.right
    /\ opr \in Joiners
    /\ L = GroupsCreator(leftIn, keys)
    /\ R = GroupsCreator(rightIn, keys)
    /\ pc = "main"
    /\ out = <<>>
    /\ calls = <<>>
    /\ NoSort /\ NoHeap /\ NoGraph

NextJoin ==
    \/ JoinMain
    \/ JoinMainExit
    \/ JoinDrainLeft
    \/ JoinDrainLeftExit
    \/ JoinDrainRight
    \/ JoinDrainRightExit

SpecJoin == InitJoin /\ [][NextJoin]_vars

(***************************************************************************)
(* Properties of Join and of the joiners (specification SpecJoin).         *)
(***************************************************************************)
InputsSorted == SortedOn(leftIn, keys) /\ SortedOn(rightIn, keys)

KeySet(rows) == {KeyValues(rows[i], keys) : i \in 1..Len(rows)}

\* C3 as stated: with both inputs sorted on K, at each step of Join where
\* both sides have a current group, equal key tuples give one joiner call
\* with (L.group, R.group) and advance both sides; k_L < k_R gives
\* (L.group, [empty_row]) and advances the left side only; k_L > k_R gives
\* ([empty_row], R.group) and advances the right side only.
C3_MergeJoinDispatch ==
    InputsSorted =>
        \A i \in 1..Len(calls) :
            LET c == calls[i]
            IN  (c.lHad /\ c.rHad) =>
                  /\ c.kL = c.kR =>
                        c.a = "group" /\ c.b = "group" /\ c.advL /\ c.advR
                  /\ TupleLess(c.kL, c.kR) =>
                        c.a = "group" /\ c.b = "sentinel" /\ c.advL /\ ~c.advR
                  /\ TupleLess(c.kR, c.kL) =>
                        c.a = "sentinel" /\ c.b = "group" /\ ~c.advL /\ c.advR

\* C4 as stated: the drain phase is entered only after one side is
\* exhausted, so a drain call pairs a group with [empty_row] only when the
\* other side has no group left; for every key list and every row.
C4_DrainAfterExhaustion ==
    /\ pc \in {"drainL", "drainR"} => (L.first = None \/ R.first = None)
    /\ \A i \in 1..Len(calls) :
          calls[i].phase = "drain" => ~(calls[i].lHad /\ calls[i].rHad)

EmitsLeftOnly(op) == op.kind \in {"LeftJoiner", "OuterJoiner"}

EmitsRightOnly(op) == op.kind \in {"RightJoiner", "OuterJoiner"}

\* C5: joiner strategies on a one-sided key.  With [empty_row] for side b,
\* InnerJoiner and RightJoiner emit nothing, LeftJoiner and OuterJoiner one
\* row per row of a; with [empty_row] for side a, InnerJoiner and LeftJoiner
\* emit nothing, RightJoiner and OuterJoiner one row per row of b.  The real
\* group is fully consumed by the joiner itself.
C5_OneSidedKey ==
    \A i \in 1..Len(calls) :
        LET c == calls[i]
        IN  /\ (c.a = "group" /\ c.b = "sentinel") =>
                  /\ Len(c.emitted) = IF EmitsLeftOnly(opr) THEN Len(c.arows) ELSE 0
                  /\ c.aDone /\ c.aread = Len(c.arows) /\ c.arows # <<>>
            /\ (c.a = "sentinel" /\ c.b = "group") =>
                  /\ Len(c.emitted) = IF EmitsRightOnly(opr) THEN Len(c.brows) ELSE 0
                  /\ c.bDone /\ c.bread = Len(c.brows) /\ c.brows # <<>>

\* C5 witness: LeftJoiner got a left group of two rows against [empty_row]
\* and emitted two rows.
C5_Witness ==
    /\ opr.kind = "LeftJoiner"
    /\ \E i \in 1..Len(calls) :
          /\ calls[i].a = "group" /\ calls[i].b = "sentinel"
          /\ Len(calls[i].arows) = 2 /\ Len(calls[i].emitted) = 2

\* C6: on a matched key with a left group of m rows and a right group of n
\* rows every joiner emits exactly m*n rows: the merge of every pair (a, b),
\* left-row-major.
C6_CartesianProduct ==
    \A i \in 1..Len(calls) :
        LET c == calls[i]
            m == Len(c.arows)
            n == Len(c.brows)
        IN  (c.a = "group" /\ c.b = "group") =>
              /\ m > 0 /\ n > 0
              /\ Len(c.emitted) = m * n
              /\ \A x \in 1..m : \A y \in 1..n :
                    RowEq(c.emitted[(x - 1) * n + y],
                          merge_two_dicts_by_keys(c.arows[x], c.brows[y],
                                                  A_SUFFIX, B_SUFFIX, keys))

\* C6 witness: a matched key with two rows on each side gave four rows, the
\* second and the third of which differ.
C6_Witness ==
    \E i \in 1..Len(calls) :
        /\ calls[i].a = "group" /\ calls[i].b = "group"
        /\ Len(calls[i].arows) = 2 /\ Len(calls[i].brows) = 2
        /\ Len(calls[i].emitted) = 4
        /\ ~RowEq(calls[i].emitted[2], calls[i].emitted[3])

SameRows(s, t) == Len(s) = Len(t) /\ \A i \in 1..Len(s) : RowEq(s[i], t[i])

\* C7: inner-join subsumption.  For inputs sorted on K with disjoint sets of
\* key tuples, Join with InnerJoiner emits nothing and Join with LeftJoiner
\* emits exactly the left input rows, in order, with no added column.
C7_InnerJoinSubsumption ==
    (pc = "done" /\ InputsSorted /\ KeySet(leftIn) \cap KeySet(rightIn) = {}) =>
        /\ opr.kind = "InnerJoiner" => out = <<>>
        /\ opr.kind = "LeftJoiner" => SameRows(out, leftIn)

\* C7 witness: a finished left join of two non-empty sorted inputs with
\* disjoint keys, two rows on the left.
C7_Witness ==
    /\ pc = "done" /\ opr.kind = "LeftJoiner" /\ InputsSorted
    /\ KeySet(leftIn) \cap KeySet(rightIn) = {}
    /\ Len(leftIn) = 2 /\ rightIn # <<>> /\ Len(out) = 2

\* exchanging the suffix of a column name
BaseNames == {"k", "j", "a", "b", "c", "c_2"}

SwapName(c) ==
    IF \E x \in BaseNames : c = x \o A_SUFFIX
    THEN (CHOOSE x \in BaseNames : c = x \o A_SUFFIX) \o B_SUFFIX
    ELSE IF \E x \in BaseNames : c = x \o B_SUFFIX
    THEN (CHOOSE x \in BaseNames : c = x \o B_SUFFIX) \o A_SUFFIX
    ELSE c

\* r1 is r2 with the suffixes exchanged on some of its columns
EqualUpToSuffixes(r1, r2) ==
    \E S \in SUBSET RowCols(r2) :
        /\ Range(r1) = {<<IF r2[i][1] \in S THEN SwapName(r2[i][1]) ELSE r2[i][1],
                          r2[i][2]>> : i \in 1..Len(r2)}
        /\ Len(r1) = Len(r2)

SameMultisetUpToSuffixes(s, t) ==
    /\ Len(s) = Len(t)
    /\ \E f \in Permutations(1..Len(s)) :
          \A i \in 1..Len(s) : EqualUpToSuffixes(s[i], t[f[i]])

\* C8 as stated: for inputs A and B sorted on K, the outer join of A with B
\* and the outer join of B with A give the same multiset of rows once the
\* suffixes _1 and _2 of colliding non-key columns are exchanged.
C8_JoinSymmetry ==
    (pc = "done" /\ opr.kind = "OuterJoiner" /\ InputsSorted) =>
        SameMultisetUpToSuffixes(out, JoinRun(opr, keys, rightIn, leftIn))

DistinctKeys(rows) == Cardinality(KeySet(rows)) = Len(rows)

ExampleA == <<Row2("k", 1, "a", 1), Row2("k", 2, "a", 2)>>

ExampleB == <<Row2("k", 2, "b", 1), Row2("k", 3, "b", 2)>>

ExampleOut ==
    <<Row2("k", 1, "a", 1),
      << <<"k", 2>>, <<"a", 2>>, <<"b", 1>> >>,
      Row2("k", 3, "b", 2)>>

\* C9: outer-join null-fill.  With at most one row per key on each side, an
\* outer join on k emits exactly one row per distinct key of the union, in
\* ascending key order; a key of one side only gives that side's row, with
\* no column of the missing side; the example of the specification gives
\* its three rows.
C9_OuterJoinNullFill ==
    (/\ pc = "done" /\ opr.kind = "OuterJoiner" /\ keys = <<"k">>
     /\ InputsSorted /\ DistinctKeys(leftIn) /\ DistinctKeys(rightIn)) =>
        /\ Len(out) = Cardinality(KeySet(leftIn) \cup KeySet(rightIn))
        /\ \A i \in 1..Len(out) :
              /\ Has(out[i], "k")
              /\ KeyValues(out[i], keys) \in KeySet(leftIn) \cup KeySet(rightIn)
              /\ i > 1 => Get(out[i - 1], "k") < Get(out[i], "k")
              /\ KeyValues(out[i], keys) \notin KeySet(rightIn) =>
                    \E x \in 1..Len(leftIn) : RowEq(out[i], leftIn[x])
              /\ KeyValues(out[i], keys) \notin KeySet(leftIn) =>
                    \E y \in 1..Len(rightIn) : RowEq(out[i], rightIn[y])
        /\ (leftIn = ExampleA /\ rightIn = ExampleB) => SameRows(out, ExampleOut)

\* C9 witness: the outer join of the example inputs has finished.
C9_Witness ==
    /\ pc = "done" /\ opr.kind = "OuterJoiner" /\ keys = <<"k">>
    /\ leftIn = ExampleA /\ rightIn = ExampleB /\ Len(out) = 3

\* C20: join output order.  When both inputs are sorted ascending on K,
\* every row Join emits, with any of the four joiners, holds the key columns
\* and its key tuple is not less than the key tuple of the row emitted
\* before it: the output is sorted on K.
C20_JoinOutputOrder ==
    InputsSorted =>
        /\ \A i \in 1..Len(out) : \A x \in 1..Len(keys) : Has(out[i], keys[x])
        /\ SortedOn(out, keys)

\* C20 witness: a finished outer join on the key (k, j) of two non-empty
\* sorted inputs gave three rows or more, the last of a greater key tuple
\* than the first.
C20_Witness ==
    /\ pc = "done" /\ opr.kind = "OuterJoiner" /\ keys = <<"k", "j">>
    /\ InputsSorted /\ leftIn # <<>> /\ rightIn # <<>>
    /\ Len(out) >= 3
    /\ TupleLess(KeyValues(out[1], keys), KeyValues(out[Len(out)], keys))

(***************************************************************************)
(* ExternalSort (lib/external_sort.py), modelled from the specification:   *)
(* the input is read in chunks of at most chunk rows, each chunk is sorted *)
(* stably in memory and spilled as a run, and the runs are merged on       *)
(* (key tuple, run id).  An input that fits in one chunk is not spilled.   *)
(* The frame of a sort is the record [stream, buffer, runs, pc, out].      *)
(***************************************************************************)
MaxSortRows == 4  \* longest input of a sort
MaxChunk == 3     \* chunk sizes are 1..MaxChunk

\* the stable insertion of a row into a run sorted on ks
RECURSIVE InsertByTuple(_, _, _)
InsertByTuple(sorted, row, ks) ==
    IF sorted = <<>> THEN <<row>>
    ELSE IF TupleLess(KeyValues(row, ks), KeyValues(sorted[1], ks))
         THEN <<row>> \o sorted
         ELSE <<sorted[1]>> \o InsertByTuple(Tail(sorted), row, ks)

RECURSIVE SortChunk(_, _, _)
SortChunk(rows, ks, acc) ==
    IF rows = <<>> THEN acc
    ELSE SortChunk(Tail(rows), ks, InsertByTuple(acc, rows[1], ks))

\* the rows a sort has read from its input
SortPos(st) == Len(Flatten(st.runs)) + Len(st.buffer)

\* one more row is read; a full chunk is sorted and spilled first
SortReadRow(st, ks, chunk) ==
    LET row == st.stream[SortPos(st) + 1]
    IN  IF Len(st.buffer) = chunk
        THEN [st EXCEPT !.runs = Append(@, SortChunk(st.buffer, ks, <<>>)),
                        !.buffer = <<row>>]
        ELSE [st EXCEPT !.buffer = Append(@, row)]

\* the input is exhausted: without a spilled run the chunk is sorted and
\* emitted from memory, otherwise it is spilled as the last run
SortInputEnd(st, ks) ==
    IF st.runs = <<>>
    THEN [st EXCEPT !.out = SortChunk(st.buffer, ks, <<>>), !.buffer = <<>>,
                    !.pc = "done"]
    ELSE [st EXCEPT !.runs = Append(@, SortChunk(st.buffer, ks, <<>>)),
                    !.buffer = <<>>, !.pc = "merge"]

\* the run whose head is the least on (key tuple, run id), ties to the
\* greatest run id
MergeMinLastRun(rs, ks) ==
    CHOOSE i \in {x \in 1..Len(rs) : rs[x] # <<>>} :
        \A j \in {x \in 1..Len(rs) : rs[x] # <<>>} \ {i} :
            \/ TupleLess(KeyValues(rs[i][1], ks), KeyValues(rs[j][1], ks))
            \/ /\ KeyValues(rs[i][1], ks) = KeyValues(rs[j][1], ks)
               /\ i > j

\* the run whose head is the least on (key tuple, run id)
MergeMin(rs, ks) ==
    CHOOSE i \in {x \in 1..Len(rs) : rs[x] # <<>>} :
        \A j \in {x \in 1..Len(rs) : rs[x] # <<>>} \ {i} :
            \/ TupleLess(KeyValues(rs[i][1], ks), KeyValues(rs[j][1], ks))
            \/ /\ KeyValues(rs[i][1], ks) = KeyValues(rs[j][1], ks)
               /\ i < j

\* the head of the least run is emitted
SortMergeRow(st, ks, i) ==
    [st EXCEPT !.out = Append(@, st.runs[i][1]), !.runs[i] = Tail(@)]

RunsEmpty(rs) == \A i \in 1..Len(rs) : rs[i] = <<>>

SortJump(st, label) == [st EXCEPT !.pc = label]

SortFrameStep(st, ks, chunk) ==
    CASE st.pc = "read" ->
            IF SortPos(st) < Len(st.stream) THEN SortReadRow(st, ks, chunk)
            ELSE SortInputEnd(st, ks)
      [] st.pc = "merge" ->
            IF RunsEmpty(st.runs) THEN SortJump(st, "done")
            ELSE SortMergeRow(st, ks, MergeMin(st.runs, ks))
      [] OTHER -> st

SortStart(rows) ==
    [stream |-> rows, buffer |-> <<>>, runs |-> <<>>, pc |-> "read", out |-> <<>>]

\* list(ExternalSort(keys)(rows)) with the given chunk size
RECURSIVE ExternalSortFrom(_, _, _)
ExternalSortFrom(st, ks, chunk) ==
    IF st.pc = "done" THEN st.out
    ELSE ExternalSortFrom(SortFrameStep(st, ks, chunk), ks, chunk)

ExternalSort(rows, ks, chunk) == ExternalSortFrom(SortStart(rows), ks, chunk)

SortFrame ==
    [stream |-> stream, buffer |-> buffer, runs |-> runs, pc |-> pc, out |-> out]

SortResume(st) ==
    /\ buffer' = st.buffer /\ runs' = st.runs /\ pc' = st.pc /\ out' = st.out
    /\ UNCHANGED <<keys, leftIn, rightIn, opr, L, R, calls, stream, heap, graphVars>>

SortRead ==
    /\ pc = "read" /\ SortPos(SortFrame) < Len(stream)
    /\ SortResume(SortReadRow(SortFrame, keys, opr.chunk))

SortEndOfInput ==
    /\ pc = "read" /\ SortPos(SortFrame) = Len(stream)
    /\ SortResume(SortInputEnd(SortFrame, keys))

SortMerge ==
    /\ pc = "merge" /\ ~RunsEmpty(runs)
    /\ SortResume(SortMergeRow(SortFrame, keys, MergeMin(runs, keys)))

SortFinish ==
    /\ pc = "merge" /\ RunsEmpty(runs)
    /\ SortResume(SortJump(SortFrame, "done"))

SortRows == {<< <<"k", a>>, <<"v", b>> >> : a \in 1..2, b \in 1..2}

SortKeyLists == {<<"k">>, <<"v", "k">>}

InitSort ==
    /\ keys \in SortKeyLists
    /\ stream \in SeqsUpTo(SortRows, MaxSortRows)
    /\ opr \in {[kind |-> "ExternalSort", chunk |-> c] : c \in 1..MaxChunk}
    /\ buffer = <<>> /\ runs = <<>>
    /\ pc = "read"
    /\ out = <<>>
    /\ leftIn = <<>> /\ rightIn = <<>> /\ calls = <<>>
    /\ L = GroupsCreator(<<>>, keys) /\ R = GroupsCreator(<<>>, keys)
    /\ NoHeap /\ NoGraph

NextSort ==
    \/ SortRead
    \/ SortEndOfInput
    \/ SortMerge
    \/ SortFinish

SpecSort == InitSort /\ [][NextSort]_vars

\* C14: sort correctness and stability.  For every chunk size, spilled or
\* not, the output of sort(K) is a permutation of its input in
\* non-decreasing order of the key tuple, and rows of equal key tuples keep
\* their input order.
C14_SortStable ==
    pc = "done" =>
        /\ Len(out) = Len(stream)
        /\ SortedOn(out, keys)
        /\ \E f \in Permutations(1..Len(stream)) :
              /\ \A i \in 1..Len(out) : out[i] = stream[f[i]]
              /\ \A i \in 1..Len(out) : \A j \in 1..Len(out) :
                    (i < j /\ KeyValues(out[i], keys) = KeyValues(out[j], keys))
                        => f[i] < f[j]

\* C14 witness: a sort with chunk size 1 has merged three runs or more of an
\* unsorted input in which two rows of equal key but different content are
\* separated by a row of another key.
C14_Witness ==
    /\ pc = "done" /\ opr.chunk = 1 /\ keys = <<"k">> /\ Len(runs) >= 3
    /\ ~SortedOn(stream, keys)
    /\ \E i \in 1..Len(stream) : \E j \in 1..Len(stream) :
          /\ i + 1 < j /\ stream[i] # stream[j]
          /\ Get(stream[i], "k") = Get(stream[j], "k")
          /\ Get(stream[i + 1], "k") # Get(stream[i], "k")

(***************************************************************************)
(* Mappers and Map (lib/operations.py).  A text is a sequence of           *)
(* one-character strings, a number of a mapped row is a quotient in lowest *)
(* terms.  A mapper call returns the row object it received as the call    *)
(* leaves it, the rows it yields (the received object itself, or a new     *)
(* dict) and the exception it raises ("" for none).                        *)
(***************************************************************************)
Yielded(same, val) == [same |-> same, val |-> val]

MapResult(row, o, e) == [row |-> row, out |-> o, err |-> e]

\* row.get(column, "")
GetText(row, c) == IF Has(row, c) THEN Get(row, c) ELSE <<>>

Punctuation == {"!", ","}

Whitespace == {" "}

\* str.lower on one character
LowerChar(ch) ==
    CASE ch = "A" -> "a"
      [] ch = "B" -> "b"
      [] OTHER -> ch

\* str.translate(str.maketrans("", "", string.punctuation))
FilterChars(txt) == SelectSeq(txt, LAMBDA ch : ch \notin Punctuation)

\* str.split(None): the maximal runs of non-whitespace characters
RECURSIVE SplitWords(_, _, _)
SplitWords(txt, word, acc) ==
    IF txt = <<>> THEN (IF word = <<>> THEN acc ELSE Append(acc, word))
    ELSE IF txt[1] \in Whitespace
         THEN SplitWords(Tail(txt), <<>>, IF word = <<>> THEN acc ELSE Append(acc, word))
         ELSE SplitWords(Tail(txt), Append(word, txt[1]), acc)

Number(n) == [num |-> n, den |-> 1]

NumMul(x, y) == TrueDiv(x.num * y.num, x.den * y.den)

NumDiv(x, y) == TrueDiv(x.num * y.den, x.den * y.num)

DummyMapper(m, row) == MapResult(row, <<Yielded(TRUE, row)>>, "")

FilterPunctuation(m, row) ==
    LET new == DictSet(row, m.column, FilterChars(GetText(row, m.column)))
    IN  MapResult(new, <<Yielded(TRUE, new)>>, "")

LowerCase(m, row) ==
    LET txt == GetText(row, m.column)
        new == DictSet(row, m.column, [i \in 1..Len(txt) |-> LowerChar(txt[i])])
    IN  MapResult(new, <<Yielded(TRUE, new)>>, "")

Split(m, row) ==
    LET words == SplitWords(GetText(row, m.column), <<>>, <<>>)
    IN  MapResult(row,
                  [i \in 1..Len(words) |-> Yielded(FALSE, DictSet(row, m.column, words[i]))],
                  "")

\* row[result_column] = 1; for column in columns: row[result_column] *= row[column]
RECURSIVE ProductFrom(_, _, _)
ProductFrom(row, columns, result_column) ==
    IF columns = <<>> THEN MapResult(row, <<Yielded(TRUE, row)>>, "")
    ELSE IF ~Has(row, columns[1]) THEN MapResult(row, <<>>, "KeyError")
    ELSE ProductFrom(DictSet(row, result_column,
                             NumMul(Get(row, result_column), Get(row, columns[1]))),
                     Tail(columns), result_column)

Product(m, row) ==
    ProductFrom(DictSet(row, m.result_column, Number(1)), m.columns, m.result_column)

SecondsPerHour == 3600

Speed(m, row) ==
    IF ~Has(row, m.distance_column) \/ ~Has(row, m.time_column)
    THEN MapResult(row, <<>>, "KeyError")
    ELSE IF Get(row, m.time_column).num = 0
    THEN MapResult(row, <<>>, "ZeroDivisionError")
    ELSE LET new == DictSet(row, m.speed_column,
                            NumMul(NumDiv(Get(row, m.distance_column),
                                          Get(row, m.time_column)),
                                   Number(SecondsPerHour)))
         IN  MapResult(new, <<Yielded(TRUE, new)>>, "")

\* Filter with the condition  row[column] > 1  (numbers of a mapped row)
Filter(m, row) ==
    IF ~Has(row, m.column) THEN MapResult(row, <<>>, "KeyError")
    ELSE IF Get(row, m.column).num > Get(row, m.column).den
    THEN MapResult(row, <<Yielded(TRUE, row)>>, "")
    ELSE MapResult(row, <<>>, "")

RECURSIVE ProjectFrom(_, _, _)
ProjectFrom(row, columns, result_row) ==
    IF columns = <<>> THEN MapResult(row, <<Yielded(FALSE, result_row)>>, "")
    ELSE IF ~Has(row, columns[1]) THEN MapResult(row, <<>>, "KeyError")
    ELSE ProjectFrom(row, Tail(columns),
                     DictSet(result_row, columns[1], Get(row, columns[1])))

Project(m, row) == ProjectFrom(row, m.columns, <<>>)

Mapper(m, row) ==
    CASE m.kind = "DummyMapper" -> DummyMapper(m, row)
      [] m.kind = "FilterPunctuation" -> FilterPunctuation(m, row)
      [] m.kind = "LowerCase" -> LowerCase(m, row)
      [] m.kind = "Split" -> Split(m, row)
      [] m.kind = "Product" -> Product(m, row)
      [] m.kind = "Speed" -> Speed(m, row)
      [] m.kind = "Filter" -> Filter(m, row)
      [] m.kind = "Project" -> Project(m, row)

\* Map.__call__ on row values: the rows yielded for the rows of the upstream
RECURSIVE MapRowsFrom(_, _, _)
MapRowsFrom(m, rows, acc) ==
    IF rows = <<>> THEN [out |-> acc, err |-> ""]
    ELSE LET r == Mapper(m, rows[1])
         IN  IF r.err # "" THEN [out |-> acc, err |-> r.err]
             ELSE MapRowsFrom(m, Tail(rows),
                              acc \o [i \in 1..Len(r.out) |-> r.out[i].val])

MapRows(m, rows) == MapRowsFrom(m, rows, <<>>)

(***************************************************************************)
(* The last operations of pmi_graph (graphs.py):                           *)
(*   .sort([doc_column, result_column])                                    *)
(*   .reduce(TopN(result_column, 10, ascending=True), [doc_column])        *)
(*   .map(Project([doc_column, text_column, result_column]))               *)
(* on the rows that InverseFrequency hands to the sort.                    *)
(***************************************************************************)
MaxPmiRows == 3   \* longest stream reaching the last sort of pmi_graph

PmiTopN == 10

PmiSortKeys == <<"doc_id", "pmi">>

PmiProjection == [kind |-> "Project", columns |-> <<"doc_id", "text", "pmi">>]

PmiRows ==
    {<< <<"doc_id", d>>, <<"text", <<w>>>>, <<"words_frequency", 1>>, <<"pmi", p>> >> :
        d \in 1..2, w \in {"a", "b"}, p \in 1..2}

InitPmi ==
    /\ stream \in SeqsUpTo(PmiRows, MaxPmiRows)
    /\ keys = <<"doc_id">>
    /\ opr = Op("TopN", "pmi", PmiTopN, TRUE)
    /\ leftIn = <<>> /\ rightIn = <<>>
    /\ L = GroupsCreator(<<>>, keys) /\ R = GroupsCreator(<<>>, keys)
    /\ pc = "sort"
    /\ out = <<>> /\ calls = <<>>
    /\ buffer = <<>> /\ runs = <<>>
    /\ NoHeap /\ NoGraph

\* the sort delivers its rows to the reduce
PmiSort ==
    /\ pc = "sort"
    /\ \E c \in 1..MaxChunk : leftIn' = ExternalSort(stream, PmiSortKeys, c)
    /\ L' = GroupsCreator(leftIn', keys)
    /\ pc' = "loop"
    /\ UNCHANGED <<keys, rightIn, opr, R, out, calls, sortVars, heap, graphVars>>

\* the rows of the reduce go through Map(Project(...))
PmiProject ==
    /\ pc = "done"
    /\ out' = MapRows(PmiProjection, out).out
    /\ pc' = "projected"
    /\ UNCHANGED <<keys, leftIn, rightIn, opr, L, R, calls, sortVars, heap, graphVars>>

NextPmi ==
    \/ PmiSort
    \/ ReduceStep
    \/ LoopExit
    \/ PmiProject

SpecPmi == InitPmi /\ [][NextPmi]_vars

\* C15 as stated: the output of pmi_graph is sorted ascending by
\* (doc_id, pmi): of two consecutive output rows the second has a greater
\* doc_id, or the same doc_id and a pmi that is not smaller.
C15_PmiOrdering ==
    pc = "projected" =>
        \A i \in 1..(Len(out) - 1) :
            \/ Get(out[i], "doc_id") < Get(out[i + 1], "doc_id")
            \/ /\ Get(out[i], "doc_id") = Get(out[i + 1], "doc_id")
               /\ Get(out[i], "pmi") <= Get(out[i + 1], "pmi")

(***************************************************************************)
(* Graph.run of a graph_from_iter graph whose operations are Map           *)
(* operations, with the factory  lambda: iter(rows)  over a list of row    *)
(* objects.  heap holds the objects of that list, stream the rows as the   *)
(* list was first filled.  An item of a stream of rows is a reference to   *)
(* an object of the list (ref > 0) or a dict created during the run        *)
(* (ref = 0, with its value).  list() pulls one source row at a time       *)
(* through the chain of generators.                                        *)
(***************************************************************************)
MaxSourceRows == 2  \* longest list of source rows
MaxStages == 2      \* longest chain of Map operations
MaxRuns == 2        \* runs of the same graph in succession

Item(ref, val) == [ref |-> ref, val |-> val]

Deref(hp, item) == IF item.ref > 0 THEN hp[item.ref] ELSE item.val

\* the items one mapper call yields for the item it received
YieldedItems(item, r) ==
    [i \in 1..Len(r.out) |->
        IF r.out[i].same
        THEN (IF item.ref > 0 THEN item ELSE Item(0, r.row))
        ELSE Item(0, r.out[i].val)]

Written(hp, item, r) == IF item.ref > 0 THEN [hp EXCEPT ![item.ref] = r.row] ELSE hp

Pushed(hp, items, err) == [heap |-> hp, items |-> items, err |-> err]

\* the items pass through the Map operations stages[1], stages[2], ...
RECURSIVE PushItems(_, _, _, _)
PushItems(hp, items, stages, acc) ==
    IF items = <<>> THEN Pushed(hp, acc, "")
    ELSE IF stages = <<>> THEN Pushed(hp, acc \o items, "")
    ELSE LET r == Mapper(stages[1], Deref(hp, items[1]))
             below == PushItems(Written(hp, items[1], r),
                                YieldedItems(items[1], r), Tail(stages), <<>>)
         IN  IF r.err # "" THEN Pushed(Written(hp, items[1], r), acc, r.err)
             ELSE IF below.err # "" THEN Pushed(below.heap, acc \o below.items, below.err)
             ELSE PushItems(below.heap, Tail(items), stages, acc \o below.items)

\* run(): the factory is called and the generators are chained
RunBegin ==
    /\ pc = "idle" /\ Len(out) < MaxRuns
    /\ calls' = Append(calls, [read |-> 0, items |-> <<>>])
    /\ pc' = "running"
    /\ UNCHANGED <<keys, leftIn, rightIn, opr, L, R, out, sortVars, heap, graphVars>>

\* list(output_lst[-1]) pulls the next source row through the chain
RunPull ==
    /\ pc = "running" /\ Last(calls).read < Len(heap)
    /\ LET n == Len(calls)
           p == PushItems(heap, <<Item(calls[n].read + 1, <<>>)>>, opr, <<>>)
       IN  /\ heap' = p.heap
           /\ calls' = [calls EXCEPT ![n].read = @ + 1, ![n].items = @ \o p.items]
           /\ pc' = IF p.err # "" THEN p.err ELSE "running"
    /\ UNCHANGED <<keys, leftIn, rightIn, opr, L, R, out, sortVars, graphVars>>

\* the source is exhausted: run returns the list
RunReturn ==
    /\ pc = "running" /\ Last(calls).read = Len(heap)
    /\ out' = Append(out, [i \in 1..Len(Last(calls).items) |->
                              Deref(heap, Last(calls).items[i])])
    /\ pc' = "idle"
    /\ UNCHANGED <<keys, leftIn, rightIn, opr, L, R, calls, sortVars, heap, graphVars>>

SourceRows ==
    {<< <<"text", <<"A", "!", " ", "b">>>>, <<"d", Number(1)>>, <<"t", Number(2)>> >>,
     << <<"text", <<"a">>>>, <<"d", Number(2)>>, <<"t", Number(1)>> >>,
     << <<"text", <<"B", " ", "a">>>>, <<"d", Number(2)>>, <<"t", Number(2)>> >>}

Mappers ==
    {[kind |-> "DummyMapper"],
     [kind |-> "FilterPunctuation", column |-> "text"],
     [kind |-> "LowerCase", column |-> "text"],
     [kind |-> "Split", column |-> "text"],
     [kind |-> "Product", columns |-> <<"d", "t">>, result_column |-> "product"],
     [kind |-> "Speed", distance_column |-> "d", time_column |-> "t",
      speed_column |-> "speed"],
     [kind |-> "Speed", distance_column |-> "d", time_column |-> "t",
      speed_column |-> "t"],
     [kind |-> "Filter", column |-> "d"],
     [kind |-> "Project", columns |-> <<"text", "d">>]}

InitMap ==
    /\ stream \in SeqsUpTo(SourceRows, MaxSourceRows)
    /\ heap = stream
    /\ opr \in SeqsUpTo(Mappers, MaxStages)
    /\ pc = "idle"
    /\ out = <<>> /\ calls = <<>>
    /\ keys = <<>> /\ leftIn = <<>> /\ rightIn = <<>>
    /\ L = GroupsCreator(<<>>, keys) /\ R = GroupsCreator(<<>>, keys)
    /\ buffer = <<>> /\ runs = <<>>
    /\ NoGraph

NextMap ==
    \/ RunBegin
    \/ RunPull
    \/ RunReturn

SpecMap == InitMap /\ [][NextMap]_vars

\* C11 as stated: operators never mutate a row they received.  After Map
\* has processed a row, the row object it received from upstream, and hence
\* from the source factory, has the same columns and values as before.
C11_RowsNotMutated ==
    /\ Len(heap) = Len(stream)
    /\ \A i \in 1..Len(heap) : RowEq(heap[i], stream[i])

\* the number of rows of s equal to the row r
Occurrences(s, r) == Cardinality({i \in 1..Len(s) : RowEq(s[i], r)})

SameMultiset(s, t) ==
    /\ Len(s) = Len(t)
    /\ \A i \in 1..Len(s) : Occurrences(s, s[i]) = Occurrences(t, s[i])

\* C13 as stated: two runs of the same graph in succession, with a factory
\* that returns the same sequence of rows on each call, return the same
\* multiset of rows; the first run leaves nothing behind that changes the
\* result of the second.
C13_RerunDeterminism ==
    Len(out) >= 2 => SameMultiset(out[1], out[2])

(***************************************************************************)
(* Graph: construction and run.  graphs holds the Graph objects in the     *)
(* order they were constructed, lists the list objects their               *)
(* operations_lst attributes refer to.  An entry of an operations list is  *)
(* an operation, or for a join the pair of the Join operation and the      *)
(* graph to join with (graph > 0).  trace holds what the latest call did:  *)
(* nothing for a builder call, the events of run and of its nested runs.   *)
(***************************************************************************)
MaxGraphs == 4      \* Graph objects constructed

SourceNames == {"a", "b"}

FileNames == {"f"}

Operation(kind, graph) == [kind |-> kind, graph |-> graph]

Event(ev, graph, depth, name, index, lst, inputs) ==
    [ev |-> ev, graph |-> graph, depth |-> depth, name |-> name,
     index |-> index, lst |-> lst, inputs |-> inputs]

\* a faulty  operations_lst + [op]  that appends to the list object itself
ListAppendInPlace(ls, id, op) ==
    [lists |-> [ls EXCEPT ![id] = Append(@, op)], id |-> id]

\* operations_lst + [op]: a new list object
ListConcat(ls, id, op) ==
    [lists |-> Append(ls, ls[id] \o <<op>>), id |-> Len(ls) + 1]

\* copy(): a new Graph with the slots of self, operations_lst being the
\* same list object
GraphCopy(gs, self) == gs[self]

\* output_graph = self.copy(); output_graph.operations_lst = ... + [op]
Extended(gs, ls, self, op) ==
    LET output_graph == GraphCopy(gs, self)
        new == ListConcat(ls, output_graph.operations_lst, op)
    IN  [graphs |-> Append(gs, [output_graph EXCEPT !.operations_lst = new.id]),
         lists |-> new.lists]

Built ==
    /\ pc' = "built" /\ trace' = <<>> /\ calls' = <<>>
    /\ UNCHANGED <<keys, leftIn, rightIn, opr, L, R, out, sortVars, heap>>

GraphFromIter ==
    /\ Len(graphs) < MaxGraphs
    /\ \E name \in SourceNames :
          /\ graphs' = Append(graphs, [input_type |-> "generator", name |-> name,
                                       operations_lst |-> Len(lists) + 1])
          /\ lists' = Append(lists, <<>>)
    /\ Built

GraphFromFile ==
    /\ Len(graphs) < MaxGraphs
    /\ \E filename \in FileNames :
          /\ graphs' = Append(graphs, [input_type |-> "file", name |-> filename,
                                       operations_lst |-> Len(lists) + 1])
          /\ lists' = Append(lists, <<>>)
    /\ Built

Extend(self, op) ==
    LET e == Extended(graphs, lists, self, op)
    IN  graphs' = e.graphs /\ lists' = e.lists

GraphMap ==
    /\ Len(graphs) < MaxGraphs
    /\ \E self \in 1..Len(graphs) : Extend(self, Operation("Map", 0))
    /\ Built

GraphReduce ==
    /\ Len(graphs) < MaxGraphs
    /\ \E self \in 1..Len(graphs) : Extend(self, Operation("Reduce", 0))
    /\ Built

GraphSort ==
    /\ Len(graphs) < MaxGraphs
    /\ \E self \in 1..Len(graphs) : Extend(self, Operation("ExternalSort", 0))
    /\ Built

GraphJoin ==
    /\ Len(graphs) < MaxGraphs
    /\ \E self \in 1..Len(graphs), join_graph \in 1..Len(graphs) :
          Extend(self, Operation("Join", join_graph))
    /\ Built

\* the keyword arguments of run: the named sources and, if given, return_lst
Kwargs(inputs, return_lst) == [inputs |-> inputs, return_lst |-> return_lst]

\* kwargs.get("return_lst", True)
ReturnLst(kwargs) == IF kwargs.return_lst = <<>> THEN TRUE ELSE kwargs.return_lst[1]

\* a faulty send_kwargs that leaves return_lst as the caller gave it
SendKwargsAsGiven(kwargs) == kwargs

\* send_kwargs = kwargs.copy(); send_kwargs["return_lst"] = False
SendKwargs(kwargs) == Kwargs(kwargs.inputs, <<FALSE>>)

\* a faulty lookup that takes an absent source for an empty one
HasSourceOrEmpty(kwargs, name) == TRUE

\* kwargs[self.generator_name] succeeds
HasSource(kwargs, name) == name \in kwargs.inputs

Ran(tr, err) == [trace |-> tr, err |-> err]

\* run(): the events are appended to tr; depth counts the enclosing runs
RECURSIVE GraphRunFrom(_, _, _, _, _, _)
RECURSIVE RunFold(_, _, _, _, _, _, _)
RunFold(gs, ls, self, kwargs, i, tr, depth) ==
    LET operations_lst == ls[gs[self].operations_lst]
    IN  IF i > Len(operations_lst) THEN Ran(tr, "")
        ELSE LET func == operations_lst[i]
                 applied == Event("apply", self, depth, func.kind, i, FALSE, {})
             IN  IF func.kind = "Join"
                 THEN LET graph2join == GraphRunFrom(gs, ls, func.graph,
                                                     SendKwargs(kwargs), tr, depth + 1)
                      IN  IF graph2join.err # "" THEN graph2join
                          ELSE RunFold(gs, ls, self, kwargs, i + 1,
                                       Append(graph2join.trace, applied), depth)
                 ELSE RunFold(gs, ls, self, kwargs, i + 1, Append(tr, applied), depth)

GraphRunFrom(gs, ls, self, kwargs, tr, depth) ==
    LET g == gs[self]
        entered == Append(tr, Event("run", self, depth, "", 0, ReturnLst(kwargs),
                                    kwargs.inputs))
    IN  IF g.input_type = "generator" /\ ~HasSource(kwargs, g.name)
        THEN Ran(Append(entered, Event("KeyError", self, depth, g.name, 0, FALSE, {})),
                 "KeyError")
        ELSE LET row_iterator ==
                     Event(IF g.input_type = "file" THEN "file_fabric" ELSE "factory",
                           self, depth, g.name, 0, FALSE, {})
                 folded == RunFold(gs, ls, self, kwargs, 1, Append(entered, row_iterator),
                                   depth)
             IN  IF folded.err # "" THEN folded
                 ELSE Ran(Append(folded.trace,
                                 Event("return", self, depth, "", 0, ReturnLst(kwargs), {})),
                          "")

GraphRun ==
    /\ \E self \in 1..Len(graphs), inputs \in SUBSET SourceNames,
          return_lst \in {<<>>, <<FALSE>>} :
          LET kwargs == Kwargs(inputs, return_lst)
              r == GraphRunFrom(graphs, lists, self, kwargs, <<>>, 0)
          IN  /\ trace' = r.trace
              /\ calls' = <<[graph |-> self, kwargs |-> kwargs]>>
              /\ pc' = IF r.err # "" THEN r.err
                       ELSE IF ReturnLst(kwargs) THEN "list" ELSE "stream"
    /\ UNCHANGED <<keys, leftIn, rightIn, opr, L, R, out, sortVars, heap, graphs, lists>>

InitGraph ==
    /\ graphs = <<>> /\ lists = <<>> /\ trace = <<>>
    /\ pc = "built" /\ calls = <<>> /\ out = <<>>
    /\ keys = <<>> /\ leftIn = <<>> /\ rightIn = <<>> /\ opr = <<>>
    /\ L = GroupsCreator(<<>>, keys) /\ R = GroupsCreator(<<>>, keys)
    /\ NoSort /\ NoHeap

NextGraph ==
    \/ GraphFromIter
    \/ GraphFromFile
    \/ GraphMap
    \/ GraphReduce
    \/ GraphSort
    \/ GraphJoin
    \/ GraphRun

SpecGraph == InitGraph /\ [][NextGraph]_vars

\* the operator list of graph g in the stores gs and ls
OperationsOf(gs, ls, g) == ls[gs[g].operations_lst]

IsFactoryCall(e) == e.ev \in {"factory", "file_fabric"}

\* C12: every step leaves each existing graph (its source descriptor and its
\* operator list) as it was, whether it is the parent, the graph passed as
\* join sub-graph or a graph derived earlier from the same parent; a step
\* that constructs a graph constructs one graph, whose operator list is empty
\* (graph_from_iter, graph_from_file) or is the list of a parent with the
\* parent's source descriptor plus one record, and invokes no source factory.
C12_BuilderStep ==
    /\ Len(graphs') >= Len(graphs)
    /\ \A g \in 1..Len(graphs) :
          /\ graphs'[g].input_type = graphs[g].input_type
          /\ graphs'[g].name = graphs[g].name
          /\ OperationsOf(graphs', lists', g) = OperationsOf(graphs, lists, g)
    /\ Len(graphs') > Len(graphs) =>
          /\ Len(graphs') = Len(graphs) + 1
          /\ LET new == graphs'[Len(graphs')]
                 ops == lists'[new.operations_lst]
             IN  \/ ops = <<>>
                 \/ \E parent \in 1..Len(graphs) :
                       /\ new.input_type = graphs[parent].input_type
                       /\ new.name = graphs[parent].name
                       /\ Len(ops) = Len(OperationsOf(graphs, lists, parent)) + 1
                       /\ SubSeq(ops, 1, Len(ops) - 1) = OperationsOf(graphs, lists, parent)
          /\ \A i \in 1..Len(trace') : ~IsFactoryCall(trace'[i])

C12_BuilderImmutability == [][C12_BuilderStep]_vars

\* C12 witness: two graphs derived from the same parent with different
\* operations, one of them by a join with a third graph's sibling, and the
\* parent still with its own list.
C12_Witness ==
    \E parent, g, h \in 1..Len(graphs) :
       /\ parent # g /\ parent # h /\ g # h
       /\ Len(OperationsOf(graphs, lists, g)) = Len(OperationsOf(graphs, lists, parent)) + 1
       /\ Len(OperationsOf(graphs, lists, h)) = Len(OperationsOf(graphs, lists, parent)) + 1
       /\ SubSeq(OperationsOf(graphs, lists, g), 1, Len(OperationsOf(graphs, lists, parent)))
             = OperationsOf(graphs, lists, parent)
       /\ SubSeq(OperationsOf(graphs, lists, h), 1, Len(OperationsOf(graphs, lists, parent)))
             = OperationsOf(graphs, lists, parent)
       /\ Last(OperationsOf(graphs, lists, g)).kind = "Join"
       /\ Last(OperationsOf(graphs, lists, g)).graph = parent
       /\ Last(OperationsOf(graphs, lists, h)).kind = "Map"

\* the source names a run of graph g looks up: its own and, recursively,
\* those of the graphs it joins with
RECURSIVE NeededNames(_, _, _)
NeededNames(gs, ls, g) ==
    (IF gs[g].input_type = "generator" THEN {gs[g].name} ELSE {})
    \cup UNION {NeededNames(gs, ls, OperationsOf(gs, ls, g)[i].graph) :
                  i \in {j \in 1..Len(OperationsOf(gs, ls, g)) :
                            OperationsOf(gs, ls, g)[j].kind = "Join"}}

\* C17: a call of run on a graph whose own source name, or the source name
\* of a graph it joins with at any depth, is absent from the inputs ends
\* with KeyError for an absent name: the top-level run does not return,
\* neither a list nor a stream.  With all names present there is no error.
C17_MissingSource ==
    calls # <<>> =>
       LET c == calls[1]
           missing == NeededNames(graphs, lists, c.graph) \ c.kwargs.inputs
       IN  /\ missing # {} =>
                 /\ pc = "KeyError"
                 /\ Last(trace).ev = "KeyError" /\ Last(trace).name \in missing
                 /\ \A i \in 1..Len(trace) :
                       ~(trace[i].ev = "return" /\ trace[i].depth = 0)
           /\ missing = {} => pc \in {"list", "stream"}

\* C17 witness: a generator-sourced graph is run with its own source and the
\* source of the graph it joins with present, and the source of a graph
\* joined at the second level absent.
C17_Witness ==
    /\ calls # <<>> /\ pc = "KeyError"
    /\ graphs[calls[1].graph].input_type = "generator"
    /\ graphs[calls[1].graph].name \in calls[1].kwargs.inputs
    /\ Last(trace).depth = 2
    /\ \E i \in 1..Len(trace) : trace[i].ev = "factory" /\ trace[i].depth = 1

\* the number of graphs with generator source name that one run of graph g
\* runs: g itself and, join by join, the graphs it joins with
RECURSIVE Uses(_, _, _, _)
RECURSIVE UsesFrom(_, _, _, _, _)
UsesFrom(gs, ls, g, name, i) ==
    IF i > Len(OperationsOf(gs, ls, g)) THEN 0
    ELSE (IF OperationsOf(gs, ls, g)[i].kind = "Join"
          THEN Uses(gs, ls, OperationsOf(gs, ls, g)[i].graph, name) ELSE 0)
         + UsesFrom(gs, ls, g, name, i + 1)

Uses(gs, ls, g, name) ==
    (IF gs[g].input_type = "generator" /\ gs[g].name = name THEN 1 ELSE 0)
    + UsesFrom(gs, ls, g, name, 1)

\* what the outermost run does with its own list, in order: for a join the
\* run of the graph to join with, then the operation
RECURSIVE ExpectedFold(_, _)
ExpectedFold(ops, i) ==
    IF i > Len(ops) THEN <<>>
    ELSE (IF ops[i].kind = "Join" THEN << <<"run", ops[i].graph>> >> ELSE <<>>)
         \o << <<"apply", i>> >> \o ExpectedFold(ops, i + 1)

IsFoldEvent(e) == (e.ev = "apply" /\ e.depth = 0) \/ (e.ev = "run" /\ e.depth = 1)

FoldEvents ==
    LET s == SelectSeq(trace, IsFoldEvent)
    IN  [i \in 1..Len(s) |-> IF s[i].ev = "run" THEN <<"run", s[i].graph>>
                             ELSE <<"apply", s[i].index>>]

\* C18: a call of run that returns has applied the operations of the list in
\* list order, each join preceded by one run of its sub-graph; it has called
\* the factory of its own source once; every nested run has received the
\* same inputs and return_lst False and has returned the stream; the factory
\* of each name has been called once per graph of that name run, the graph
\* itself included; and without return_lst among the arguments the call
\* returns a list.
C18_SubGraphExecution ==
    (calls # <<>> /\ pc \in {"list", "stream"}) =>
       LET c == calls[1]
           ops == OperationsOf(graphs, lists, c.graph)
       IN  /\ FoldEvents = ExpectedFold(ops, 1)
           /\ \A i \in 1..Len(trace) :
                 (trace[i].ev = "apply" /\ trace[i].depth = 0) =>
                     trace[i].name = ops[trace[i].index].kind
           /\ Cardinality({i \in 1..Len(trace) :
                              IsFactoryCall(trace[i]) /\ trace[i].depth = 0}) = 1
           /\ \A i \in 1..Len(trace) :
                 (IsFactoryCall(trace[i]) /\ trace[i].depth = 0) =>
                     /\ trace[i].graph = c.graph
                     /\ trace[i].name = graphs[c.graph].name
           /\ \A i \in 1..Len(trace) :
                 (trace[i].ev = "run" /\ trace[i].depth > 0) =>
                     /\ trace[i].inputs = c.kwargs.inputs
                     /\ trace[i].lst = FALSE
           /\ \A i \in 1..Len(trace) :
                 (trace[i].ev = "return" /\ trace[i].depth > 0) => trace[i].lst = FALSE
           /\ \A name \in SourceNames :
                 Cardinality({i \in 1..Len(trace) :
                                 trace[i].ev = "factory" /\ trace[i].name = name})
                    = Uses(graphs, lists, c.graph, name)
           /\ c.kwargs.return_lst = <<>> =>
                 /\ pc = "list"
                 /\ Last(trace).ev = "return" /\ Last(trace).depth = 0 /\ Last(trace).lst

\* C18 witness: a run without return_lst has returned a list; the graph's
\* source name is shared with at least two of the graphs run below it, one
\* of them at the second level.
C18_Witness ==
    /\ calls # <<>> /\ pc = "list" /\ calls[1].kwargs.return_lst = <<>>
    /\ graphs[calls[1].graph].input_type = "generator"
    /\ Uses(graphs, lists, calls[1].graph, graphs[calls[1].graph].name) >= 3
    /\ \E i \in 1..Len(trace) : trace[i].ev = "factory" /\ trace[i].depth = 2

(***************************************************************************)
(* merge_two_dicts_by_keys on its own: leftIn holds a_row, rightIn b_row,  *)
(* opr the two suffixes, out the returned row.                             *)
(***************************************************************************)
MaxMergeValue == 2  \* largest value of a column

\* the rows over the columns k, c and c_2 in either insertion order, with
\* the key column k = 1, and the row without columns
MergeRows ==
    LET cells == {<<>>} \cup {<< <<"c", v>> >> : v \in 1..MaxMergeValue}
        tails == {<<>>} \cup {<< <<"c_2", v>> >> : v \in 1..MaxMergeValue}
    IN  {EmptyRow}
        \cup {<< <<"k", 1>> >> \o x \o y : x \in cells, y \in tails}
        \cup {<< <<"k", 1>> >> \o y \o x : x \in cells, y \in tails}

SuffixPairs == {<<A_SUFFIX, B_SUFFIX>>, <<B_SUFFIX, A_SUFFIX>>}

InitMerge ==
    /\ keys = <<"k">>
    /\ \E a_row \in MergeRows, b_row \in MergeRows :
          leftIn = <<a_row>> /\ rightIn = <<b_row>>
    /\ \E s \in SuffixPairs : opr = [suffix_a |-> s[1], suffix_b |-> s[2]]
    /\ pc = "new" /\ out = <<>> /\ calls = <<>>
    /\ L = GroupsCreator(<<>>, keys) /\ R = GroupsCreator(<<>>, keys)
    /\ NoSort /\ NoHeap /\ NoGraph

MergeCall ==
    /\ pc = "new"
    /\ out' = <<merge_two_dicts_by_keys(leftIn[1], rightIn[1],
                                        opr.suffix_a, opr.suffix_b, keys)>>
    /\ pc' = "done"
    /\ UNCHANGED <<keys, leftIn, rightIn, opr, L, R, calls, sortVars, heap, graphVars>>

NextMerge == MergeCall

SpecMerge == InitMerge /\ [][NextMerge]_vars

\* the column c of row holds value v
Holds(row, c, v) == Has(row, c) /\ Get(row, c) = v

\* C22 as stated: for rows a and b that agree on the key columns and
\* distinct suffixes, the merged row holds every value of a and of b: a
\* column of one row only under its own name, a key column once, a colliding
\* column c that is no key as c+sfx_a from a and c+sfx_b from b.
C22_MergeLosesNoData ==
    (/\ pc = "done"
     /\ opr.suffix_a # opr.suffix_b
     /\ \A key \in Range(keys) :
           (Has(leftIn[1], key) /\ Has(rightIn[1], key)) =>
               Get(leftIn[1], key) = Get(rightIn[1], key))
    => LET a == leftIn[1]
           b == rightIn[1]
           m == out[1]
       IN  /\ \A c \in RowCols(a) \ RowCols(b) : Holds(m, c, Get(a, c))
           /\ \A c \in RowCols(b) \ RowCols(a) : Holds(m, c, Get(b, c))
           /\ \A c \in RowCols(a) \cap RowCols(b) :
                 IF c \in Range(keys)
                 THEN Holds(m, c, Get(a, c))
                 ELSE /\ Holds(m, c \o opr.suffix_a, Get(a, c))
                      /\ Holds(m, c \o opr.suffix_b, Get(b, c))

(***************************************************************************)
(* Progress of Join.  The consumer of the generator (list(), the next      *)
(* operation) keeps asking for rows, so a step that is possible is         *)
(* eventually taken.                                                       *)
(***************************************************************************)
\* weak fairness of NextJoin.  A step of NextJoin is possible exactly while
\* pc is not "done" (each loop either iterates or ends), so the condition
\* ENABLED <<NextJoin>>_vars of WF_vars(NextJoin) is written as pc # "done"
JoinFairness == []<>(pc = "done") \/ []<><<NextJoin>>_vars

SpecJoinFair == SpecJoin /\ JoinFairness

\* the rows of the current and the later groups of a creator between two
\* loop iterations (the head of the current group is the row at pos)
Remaining(gc) == IF gc.first = None THEN 0 ELSE Len(gc.src) - gc.pos + 1

\* the groups handed to the joiner so far, side by side
LeftGroups ==
    LET s == SelectSeq(calls, LAMBDA c : c.a = "group")
    IN  [i \in 1..Len(s) |-> s[i].arows]

RightGroups ==
    LET s == SelectSeq(calls, LAMBDA c : c.b = "group")
    IN  [i \in 1..Len(s) |-> s[i].brows]

\* gs are the groups of a prefix of rows, or of all of rows when whole: each
\* group is a non-empty run of rows with one key tuple that ends where the
\* key tuple changes or the input ends, and the runs follow each other
\* without gap or overlap
GroupsOf(gs, rows, whole) ==
    LET flat == Flatten(gs)
    IN  /\ Len(flat) <= Len(rows)
        /\ flat = SubSeq(rows, 1, Len(flat))
        /\ whole => Len(flat) = Len(rows)
        /\ \A i \in 1..Len(gs) :
              /\ gs[i] # <<>>
              /\ \A j \in 1..Len(gs[i]) :
                    KeyValues(gs[i][j], keys) = KeyValues(gs[i][1], keys)
        /\ \A i \in 1..(Len(gs) - 1) :
              KeyValues(gs[i + 1][1], keys) # KeyValues(gs[i][1], keys)
        /\ Len(flat) < Len(rows) =>
              (gs # <<>> =>
                  KeyValues(rows[Len(flat) + 1], keys) # KeyValues(Last(gs)[1], keys))

\* one step of Join: a loop iteration (a joiner call) leaves no side with
\* more rows ahead than before and at least one side with fewer; the end of
\* a loop moves on to the next loop
JoinProgressStep ==
    /\ Len(calls') > Len(calls) =>
          /\ Len(calls') = Len(calls) + 1
          /\ Remaining(L') <= Remaining(L) /\ Remaining(R') <= Remaining(R)
          /\ Remaining(L') + Remaining(R') < Remaining(L) + Remaining(R)
          /\ Last(calls').a = "group" <=> Remaining(L') < Remaining(L)
          /\ Last(calls').b = "group" <=> Remaining(R') < Remaining(R)
    /\ Len(calls') = Len(calls) =>
          <<pc, pc'>> \in {<<"main", "drainL">>, <<"drainL", "drainR">>,
                           <<"drainR", "done">>}

\* C21: for every pair of inputs, sorted or not, and every joiner, Join
\* terminates; every loop iteration advances at least one side; the groups
\* handed to the joiner on each side are the groups of that side's input in
\* order, each in one call, so that at the end every row of both inputs has
\* been consumed exactly once.
C21_JoinProgress ==
    /\ [][JoinProgressStep]_vars
    /\ [](/\ GroupsOf(LeftGroups, leftIn, pc = "done")
          /\ GroupsOf(RightGroups, rightIn, pc = "done")
          /\ L.gen = "new" /\ R.gen = "new"
          /\ pc = "done" => (L.first = None /\ R.first = None))
    /\ <>(pc = "done")

\* C21 witness: a finished join of unsorted inputs in which some iterations
\* advanced both sides, some only the left and some only the right.
C21_Witness ==
    /\ pc = "done" /\ ~InputsSorted
    /\ \E i \in 1..Len(calls) : calls[i].a = "group" /\ calls[i].b = "group"
    /\ \E i \in 1..Len(calls) : calls[i].a = "group" /\ calls[i].b = "sentinel"
    /\ \E i \in 1..Len(calls) : calls[i].a = "sentinel" /\ calls[i].b = "group"
    /\ Len(LeftGroups) >= 2 /\ Len(RightGroups) >= 2

=============================================================================
